---- MODULE Spec2Model ----
(***************************************************************************)
(* Model of faff_qa.py: the four-node answer-quality pipeline              *)
(* (fix_grammar, check_adequacy, improve_formatting, create_final_answer)  *)
(* run by process_answer over an AgentState.                               *)
(*                                                                         *)
(* Python values are modelled as tagged records so that None, strings,     *)
(* lists and dicts can live in the same field and Python truthiness        *)
(* ("x or y", "if x") can be computed as the interpreter computes it.      *)
(***************************************************************************)
EXTENDS Integers, Sequences, FiniteSets, TLC

\* ------------------------------------------------------------------ bounds
\* Longest gateway response text, in tokens.
MaxTextLen == 4
\* Largest example set handed to process_answer.
MaxExamples == 8

\* ---------------------------------------------------------- Python values
None == [kind |-> "None"]
Str(s) == [kind |-> "str", v |-> s]
Bool(b) == [kind |-> "bool", v |-> b]
List(s) == [kind |-> "list", v |-> s]
Dict(f) == [kind |-> "dict", v |-> f]
EmptyDict == Dict(<<>>)

\* bool(x) of the interpreter.
Truthy(x) ==
    CASE x.kind = "None" -> FALSE
      [] x.kind = "str"  -> x.v # ""
      [] x.kind = "bool" -> x.v
      [] x.kind = "list" -> x.v # <<>>
      [] x.kind = "dict" -> DOMAIN x.v # {}

\* x or y
Or(x, y) == IF Truthy(x) THEN x ELSE y

\* d.get(key, default) on a dict.
Get(d, key, default) == IF key \in DOMAIN d.v THEN d.v[key] ELSE default

IsDict(x) == x.kind = "dict"

\* ------------------------------------------------------------- AgentState
StateFields ==
    {"user_query", "proposed_answer", "grammar_fixed_answer",
     "adequacy_assessment", "format_assessment", "final_answer"}

\* AgentState(user_query=..., proposed_answer=...): the optional fields
\* default to None.
AgentState(uq, pa) ==
    [user_query |-> Str(uq), proposed_answer |-> Str(pa),
     grammar_fixed_answer |-> None, adequacy_assessment |-> None,
     format_assessment |-> None, final_answer |-> None]

\* Placeholder for "no AgentState constructed yet".
NoState ==
    [user_query |-> None, proposed_answer |-> None,
     grammar_fixed_answer |-> None, adequacy_assessment |-> None,
     format_assessment |-> None, final_answer |-> None]

\* Optional[Dict] of the pydantic model: None or a dict.
ValidState(s) ==
    /\ s.adequacy_assessment.kind \in {"None", "dict"}
    /\ s.format_assessment.kind \in {"None", "dict"}

\* StateGraph(AgentState): a node's returned dict is folded into the state
\* through the channels of the schema, one per AgentState field; a returned
\* key that is no field of AgentState has no channel.
ApplyUpdate(s, upd) ==
    [f \in StateFields |-> IF f \in DOMAIN upd THEN upd[f] ELSE s[f]]

\* ------------------------------------------------- gateway response texts
\* A response text is a sequence of tokens: the code fence (three backticks), the word json,
\* white space, prose that is no JSON, and JSON literals.
Fence == "<fence>"
JsonWord == "json"
Ws == " "
Prose == "Sure, here are my thoughts"

\* The JSON literals the gateway may answer with, and json.loads of each.
JsonLits ==
    ( "null" :> None )
 @@ ( "[]" :> List(<<>>) )
 @@ ( "[1]" :> List(<<"1">>) )
 @@ ( "{}" :> EmptyDict )
 @@ ( "{adequate}" :>
        Dict([adequately_addressed |-> Bool(TRUE), missing_aspects |-> List(<<>>),
              suggestions |-> List(<<"polish">>), improved_answer |-> Str("a1")]) )
 @@ ( "{inadequate}" :>
        Dict([adequately_addressed |-> Bool(FALSE), missing_aspects |-> List(<<"steps">>),
              suggestions |-> List(<<"add steps">>), improved_answer |-> Str("a2")]) )
 @@ ( "{inadequate,empty}" :>
        Dict([adequately_addressed |-> Bool(FALSE), missing_aspects |-> List(<<"steps">>),
              suggestions |-> List(<<"add steps">>), improved_answer |-> Str("")]) )
 @@ ( "{suggestions}" :>
        Dict([suggestions |-> List(<<"add steps">>)]) )
 @@ ( "{formatted}" :>
        Dict([formatting_issues |-> List(<<"wall of text">>),
              improvements_made |-> List(<<"numbered steps">>),
              improved_answer |-> Str("f1")]) )
 @@ ( "{formatted,empty}" :>
        Dict([formatting_issues |-> List(<<>>),
              improvements_made |-> List(<<"none needed">>),
              improved_answer |-> Str("")]) )
 @@ ( "{issues}" :>
        Dict([formatting_issues |-> List(<<"wall of text">>)]) )

\* A frame is a text with holes; a response text is a frame whose holes are
\* filled with one JSON literal.
Hole == "@"
Frames == UNION {[1..n -> {Fence, JsonWord, Ws, Prose, Hole}] : n \in 0..MaxTextLen}
Fill(frame, lit) == [i \in 1..Len(frame) |-> IF frame[i] = Hole THEN lit ELSE frame[i]]
ResponseTexts == {Fill(fr, lit) : fr \in Frames, lit \in DOMAIN JsonLits}

\* sep in text
Contains(text, sep) ==
    \E i \in 1..(Len(text) - Len(sep) + 1) : SubSeq(text, i, i + Len(sep) - 1) = sep

\* text.split(sep): the pieces between the non-overlapping occurrences of
\* sep, found left to right.
RECURSIVE Split(_, _)
Split(text, sep) ==
    IF ~Contains(text, sep) THEN <<text>>
    ELSE LET i == CHOOSE k \in 1..(Len(text) - Len(sep) + 1) :
                    /\ SubSeq(text, k, k + Len(sep) - 1) = sep
                    /\ \A j \in 1..(k - 1) : SubSeq(text, j, j + Len(sep) - 1) # sep
         IN  <<SubSeq(text, 1, i - 1)>> \o Split(SubSeq(text, i + Len(sep), Len(text)), sep)

\* text.strip()
RECURSIVE Strip(_)
Strip(text) ==
    IF text = <<>> THEN text
    ELSE IF Head(text) = Ws THEN Strip(Tail(text))
    ELSE IF text[Len(text)] = Ws THEN Strip(SubSeq(text, 1, Len(text) - 1))
    ELSE text

\* The fence extraction both parsers share.
ExtractJson(response_text) ==
    IF Contains(response_text, <<Fence, JsonWord>>)
    THEN Strip(Split(Split(response_text, <<Fence, JsonWord>>)[2], <<Fence>>)[1])
    ELSE IF Contains(response_text, <<Fence>>)
    THEN Strip(Split(Split(response_text, <<Fence>>)[2], <<Fence>>)[1])
    ELSE Strip(response_text)

\* json.loads(json_content): a value, or JSONDecodeError.
JSONDecodeError == [kind |-> "JSONDecodeError"]
JsonLoads(json_content) ==
    LET body == Strip(json_content)
    IN  IF Len(body) = 1 /\ body[1] \in DOMAIN JsonLits
        THEN JsonLits[body[1]]
        ELSE JSONDecodeError

\* What a stage's try block yields for a response text.
ParseResponse(response_text) == JsonLoads(ExtractJson(response_text))

\* Everything the try block can yield over the response texts.
ParseOutcomes == {ParseResponse(t) : t \in ResponseTexts}

\* The three extraction strategies as the parsing contract lists them, each
\* taken on its own: (a) the content between a json-labelled fence and the
\* next fence, (b) the content between the first fence and the next,
\* (c) the trimmed whole text. A strategy that does not apply yields nothing.
StrategyContents(response_text) ==
    (IF Contains(response_text, <<Fence, JsonWord>>)
     THEN {Split(Split(response_text, <<Fence, JsonWord>>)[2], <<Fence>>)[1]} ELSE {})
    \cup
    (IF Contains(response_text, <<Fence>>)
     THEN {Split(response_text, <<Fence>>)[2]} ELSE {})
    \cup {response_text}

\* Some strategy yields text that json.loads accepts.
SomeStrategyParses(response_text) ==
    \E content \in StrategyContents(response_text) : JsonLoads(Strip(content)) # JSONDecodeError

\* What a node learns from a response text, with the note whether some
\* strategy would have parsed it.
ResponseOutcomes ==
    {[parsed |-> ParseResponse(t), parseable |-> SomeStrategyParses(t)] : t \in ResponseTexts}


\* ------------------------------------------------------------------ inputs
Queries == {"How do I reset my password?"}
Answers == {"", "go to setting then click reste pasword link",
            "Go to Settings, then click the reset password link."}
\* The raw text the gateway may return to the grammar stage.
GrammarTexts == Answers
CsvPath == "faff_formatting_examples.csv"

\* One loaded example record.
Example(i) ==
    [task |-> <<"Task", i>>, bad_format |-> <<"Bad Formatting", i>>,
     good_format |-> <<"Good Formatting", i>>, explanation |-> <<"explanation", i>>]
ExampleSets == {List([i \in 1..n |-> Example(i)]) : n \in 0..MaxExamples}

\* ------------------------------------------------------------------- state
VARIABLES
    pc,                  \* where process_answer stands
    user_query,          \* argument of process_answer
    proposed_answer,     \* argument of process_answer
    formatting_examples, \* argument of process_answer (None when not given)
    csv_path,            \* argument of process_answer (None when not given)
    api_key,             \* TRUE iff ANTHROPIC_API_KEY is set
    validates,           \* TRUE iff the installed graph library validates node input
    state,               \* the AgentState threaded through the graph
    ret,                 \* the dict the last node returned
    calls,               \* the gateway calls made so far, with their prompts
    executed,            \* the nodes whose body has run, in order
    recovered,           \* the nodes whose json.loads raised JSONDecodeError
    parseable,           \* the nodes whose response some extraction strategy parses
    error,               \* the exception process_answer raised, or None
    result,              \* the payload process_answer returned, or None
    runs,                \* concurrent invocations: each one's arguments and progress
    states               \* concurrent invocations: each one's AgentState

\* What one process_answer call on its own works with.
single == <<pc, user_query, proposed_answer, formatting_examples, csv_path, api_key, validates,
            state, ret, calls, executed, recovered, parseable, error, result>>

vars == <<single, runs, states>>

\* What no step of a single call changes: its arguments, its environment, and
\* the records of concurrent invocations, of which it has none.
inputs == <<user_query, proposed_answer, formatting_examples, csv_path, api_key, validates,
            runs, states>>

Init ==
    /\ pc = "process_answer"
    /\ user_query \in Queries
    /\ proposed_answer \in Answers
    /\ formatting_examples \in {None} \cup ExampleSets
    /\ csv_path \in {None, Str(CsvPath)}
    /\ api_key \in BOOLEAN
    /\ validates \in BOOLEAN
    /\ state = NoState
    /\ ret = None
    /\ calls = <<>>
    /\ executed = <<>>
    /\ recovered = {}
    /\ parseable = {}
    /\ error = None
    /\ result = None
    /\ runs = <<>>
    /\ states = <<>>

\* Mutant: the exception is reported together with what the state holds so far.
Raise_PartialResult(exc) ==
    /\ pc' = "raised"
    /\ error' = Str(exc)
    /\ result' = Dict([original_answer |-> Str(proposed_answer),
                       final_answer |-> state.final_answer])
    /\ UNCHANGED <<state, ret, recovered, parseable>>

\* An exception leaves process_answer: nothing is returned.
Raise(exc) ==
    /\ pc' = "raised"
    /\ error' = Str(exc)
    /\ UNCHANGED <<state, ret, recovered, parseable, result>>

\* ------------------------------------------------------------ entry point
\* Mutant: the client is built without looking at the credential.
get_claude_client_raises_Never == FALSE

\* get_claude_client(): fails without a credential.
get_claude_client_raises == ~api_key

\* process_answer up to graph.invoke: example loading, AgentState
\* construction, build_answer_quality_graph.
process_answer_begin ==
    /\ pc = "process_answer"
    /\ UNCHANGED <<inputs, calls, executed>>
    /\ IF formatting_examples = None /\ csv_path = None
       THEN Raise("ValueError")
       ELSE IF formatting_examples = None
       \* load_formatting_examples_from_csv takes no argument and is
       \* called with one.
       THEN Raise("TypeError")
       ELSE IF get_claude_client_raises
       THEN /\ pc' = "raised"
            /\ error' = Str("ValueError")
            /\ state' = AgentState(user_query, proposed_answer)
            /\ UNCHANGED <<ret, recovered, parseable, result>>
       ELSE /\ pc' = "fix_grammar"
            /\ state' = AgentState(user_query, proposed_answer)
            /\ UNCHANGED <<ret, recovered, parseable, error, result>>

\* ------------------------------------------------------------------ nodes
\* Node input is an AgentState built from the channel values. Whether that
\* build validates Optional[Dict] depends on the installed library: where it
\* does, a value that is neither None nor a dict is rejected before the node
\* body runs; where it does not, the body runs on the value as it is.
NodeInputRejected == validates /\ ~ValidState(state)

ValidationRaise ==
    /\ NodeInputRejected
    /\ Raise("ValidationError")
    /\ UNCHANGED <<inputs, calls, executed>>

\* A node whose body raises before its return.
NodeRaise(node, exc, made_call) ==
    /\ Raise(exc)
    /\ executed' = Append(executed, node)
    /\ calls' = IF made_call = None THEN calls ELSE Append(calls, made_call)
    /\ UNCHANGED inputs

\* A node that returns upd; the graph folds it into the state and moves on.
NodeReturn(node, upd, made_call, next) ==
    /\ ret' = Dict(upd)
    /\ state' = ApplyUpdate(state, upd)
    /\ executed' = Append(executed, node)
    /\ calls' = IF made_call = None THEN calls ELSE Append(calls, made_call)
    /\ pc' = next
    /\ UNCHANGED <<inputs, error, result>>

\* Node 1.
fix_grammar_prompt(s) == [node |-> "fix_grammar", answer |-> s.proposed_answer]

\* Mutant: the corrected text also replaces the original answer.
fix_grammar_OverwritesOriginal(s, response_text) ==
    [grammar_fixed_answer |-> Str(response_text), proposed_answer |-> Str(response_text)]

fix_grammar(s, response_text) == [grammar_fixed_answer |-> Str(response_text)]

fix_grammar_node ==
    /\ pc = "fix_grammar"
    /\ \/ NodeRaise("fix_grammar", "ServiceError", fix_grammar_prompt(state))
       \/ \E text \in GrammarTexts :
            /\ NodeReturn("fix_grammar", fix_grammar(state, text),
                          fix_grammar_prompt(state), "check_adequacy")
            /\ UNCHANGED <<recovered, parseable>>

\* Node 2.
\* Mutant: the stage evaluates the original answer.
check_adequacy_answer_Original(s) == s.proposed_answer

check_adequacy_answer(s) == Or(s.grammar_fixed_answer, s.proposed_answer)

check_adequacy_prompt(s) ==
    [node |-> "check_adequacy", user_query |-> s.user_query,
     answer |-> check_adequacy_answer(s)]

\* Mutant: the fallback record carries the original answer, not the input of the stage.
check_adequacy_SentinelOriginal(s, parsed) ==
    [adequacy_assessment |->
        IF parsed # JSONDecodeError THEN parsed
        ELSE Dict([adequately_addressed |-> Bool(FALSE),
                   missing_aspects |-> List(<<"Unable to parse assessment">>),
                   suggestions |-> List(<<"Error processing assessment">>),
                   improved_answer |-> s.proposed_answer])]

check_adequacy(s, parsed) ==
    [adequacy_assessment |->
        IF parsed # JSONDecodeError THEN parsed
        ELSE Dict([adequately_addressed |-> Bool(FALSE),
                   missing_aspects |-> List(<<"Unable to parse assessment">>),
                   suggestions |-> List(<<"Error processing assessment">>),
                   improved_answer |-> Or(s.grammar_fixed_answer, s.proposed_answer)])]

check_adequacy_node ==
    /\ pc = "check_adequacy"
    /\ \/ NodeRaise("check_adequacy", "ServiceError", check_adequacy_prompt(state))
       \/ \E response \in ResponseOutcomes :
            /\ NodeReturn("check_adequacy", check_adequacy(state, response.parsed),
                          check_adequacy_prompt(state), "improve_formatting")
            /\ recovered' = IF response.parsed = JSONDecodeError
                            THEN recovered \cup {"check_adequacy"} ELSE recovered
            /\ parseable' = IF response.parseable
                            THEN parseable \cup {"check_adequacy"} ELSE parseable


\* Node 3.
\* x.get(...) on a value that is truthy and no dict: AttributeError.
GetRaises(x) == Truthy(x) /\ ~IsDict(x)

\* state.X.get("improved_answer", "") if state.X else ""
ImprovedAnswerOf(x) == IF Truthy(x) THEN Get(x, "improved_answer", Str("")) ELSE Str("")

improve_formatting_raises(s) == GetRaises(s.adequacy_assessment)

\* Mutant: the stage works on the grammar-fixed answer and ignores the adequacy stage.
improve_formatting_current_answer_SkipsAdequacy(s) ==
    Or(s.grammar_fixed_answer, s.proposed_answer)

improve_formatting_current_answer(s) ==
    LET current_answer == ImprovedAnswerOf(s.adequacy_assessment)
    IN  IF ~Truthy(current_answer)
        THEN Or(s.grammar_fixed_answer, s.proposed_answer)
        ELSE current_answer

\* formatting_examples[:5]
ExampleLimit == 5
\* Mutant: every loaded example goes into the prompt.
examples_to_use_All(examples) == examples.v

examples_to_use(examples) ==
    SubSeq(examples.v, 1, IF Len(examples.v) < ExampleLimit THEN Len(examples.v) ELSE ExampleLimit)

\* The numbered examples of the prompt.
examples_text(examples) ==
    [i \in 1..Len(examples_to_use(examples)) |->
        [number |-> i, example |-> examples_to_use(examples)[i]]]

improve_formatting_prompt(s, examples) ==
    [node |-> "improve_formatting", examples_text |-> examples_text(examples),
     user_query |-> s.user_query, answer |-> improve_formatting_current_answer(s)]

\* Mutant: the fallback record carries the grammar-fixed answer, not the current answer.
improve_formatting_SentinelGrammar(s, examples, parsed) ==
    [format_assessment |->
        IF parsed # JSONDecodeError THEN parsed
        ELSE Dict([formatting_issues |-> List(<<"Unable to parse assessment">>),
                   improvements_made |-> List(<<"Error processing formatting">>),
                   improved_answer |-> Or(s.grammar_fixed_answer, s.proposed_answer)])]

improve_formatting(s, examples, parsed) ==
    [format_assessment |->
        IF parsed # JSONDecodeError THEN parsed
        ELSE Dict([formatting_issues |-> List(<<"Unable to parse assessment">>),
                   improvements_made |-> List(<<"Error processing formatting">>),
                   improved_answer |-> improve_formatting_current_answer(s)])]

improve_formatting_node ==
    /\ pc = "improve_formatting"
    /\ \/ ValidationRaise
       \/ /\ ~NodeInputRejected
          /\ improve_formatting_raises(state)
          /\ NodeRaise("improve_formatting", "AttributeError", None)
       \/ /\ ~NodeInputRejected
          /\ ~improve_formatting_raises(state)
          /\ NodeRaise("improve_formatting", "ServiceError",
                       improve_formatting_prompt(state, formatting_examples))
       \/ /\ ~NodeInputRejected
          /\ ~improve_formatting_raises(state)
          /\ \E response \in ResponseOutcomes :
               /\ NodeReturn("improve_formatting",
                             improve_formatting(state, formatting_examples, response.parsed),
                             improve_formatting_prompt(state, formatting_examples),
                             "create_final")
               /\ recovered' = IF response.parsed = JSONDecodeError
                               THEN recovered \cup {"improve_formatting"} ELSE recovered
               /\ parseable' = IF response.parseable
                               THEN parseable \cup {"improve_formatting"} ELSE parseable

\* Node 4.
create_final_answer_raises(s) ==
    GetRaises(s.format_assessment) \/ GetRaises(s.adequacy_assessment)

\* Mutant: the comparison is made without the guard on grammar_fixed_answer.
grammar_changed_Unguarded(s) == Bool(s.grammar_fixed_answer # s.proposed_answer)

\* state.grammar_fixed_answer != state.proposed_answer if state.grammar_fixed_answer else False
grammar_changed(s) ==
    Bool(IF Truthy(s.grammar_fixed_answer)
         THEN s.grammar_fixed_answer # s.proposed_answer
         ELSE FALSE)

\* Mutant: the fallback passes over the improved answer of the adequacy stage.
create_final_answer_SkipsAdequacy(s) ==
    LET formatted0 == ImprovedAnswerOf(s.format_assessment)
        adequacy_answer == ImprovedAnswerOf(s.adequacy_assessment)
        formatted_answer ==
            IF ~Truthy(formatted0)
            THEN Or(s.grammar_fixed_answer, s.proposed_answer)
            ELSE formatted0
        adequacy_changes ==
            IF Truthy(s.adequacy_assessment)
               /\ ~Truthy(Get(s.adequacy_assessment, "adequately_addressed", Bool(TRUE)))
            THEN Get(s.adequacy_assessment, "suggestions", List(<<>>))
            ELSE List(<<>>)
        formatting_changes ==
            IF Truthy(s.format_assessment)
            THEN Get(s.format_assessment, "improvements_made", List(<<>>))
            ELSE List(<<>>)
        changes_summary ==
            Dict([grammar_changed |-> grammar_changed(s),
                  adequacy_issues |-> adequacy_changes,
                  formatting_improvements |-> formatting_changes])
    IN  [final_answer |-> formatted_answer, changes_summary |-> changes_summary]

\* Mutant: the suggestions are reported whatever the adequacy verdict.
create_final_answer_AlwaysSuggestions(s) ==
    LET formatted0 == ImprovedAnswerOf(s.format_assessment)
        adequacy_answer == ImprovedAnswerOf(s.adequacy_assessment)
        formatted_answer ==
            IF ~Truthy(formatted0)
            THEN Or(Or(adequacy_answer, s.grammar_fixed_answer), s.proposed_answer)
            ELSE formatted0
        adequacy_changes ==
            IF Truthy(s.adequacy_assessment)
            THEN Get(s.adequacy_assessment, "suggestions", List(<<>>))
            ELSE List(<<>>)
        formatting_changes ==
            IF Truthy(s.format_assessment)
            THEN Get(s.format_assessment, "improvements_made", List(<<>>))
            ELSE List(<<>>)
        changes_summary ==
            Dict([grammar_changed |-> grammar_changed(s),
                  adequacy_issues |-> adequacy_changes,
                  formatting_improvements |-> formatting_changes])
    IN  [final_answer |-> formatted_answer, changes_summary |-> changes_summary]

\* Mutant: an empty formatted answer is returned as it is.
create_final_answer_NoFallback(s) ==
    LET formatted0 == ImprovedAnswerOf(s.format_assessment)
        adequacy_answer == ImprovedAnswerOf(s.adequacy_assessment)
        formatted_answer ==
            IF formatted0 = None
            THEN Or(Or(adequacy_answer, s.grammar_fixed_answer), s.proposed_answer)
            ELSE formatted0
        adequacy_changes ==
            IF Truthy(s.adequacy_assessment)
               /\ ~Truthy(Get(s.adequacy_assessment, "adequately_addressed", Bool(TRUE)))
            THEN Get(s.adequacy_assessment, "suggestions", List(<<>>))
            ELSE List(<<>>)
        formatting_changes ==
            IF Truthy(s.format_assessment)
            THEN Get(s.format_assessment, "improvements_made", List(<<>>))
            ELSE List(<<>>)
        changes_summary ==
            Dict([grammar_changed |-> grammar_changed(s),
                  adequacy_issues |-> adequacy_changes,
                  formatting_improvements |-> formatting_changes])
    IN  [final_answer |-> formatted_answer, changes_summary |-> changes_summary]

create_final_answer(s) ==
    LET formatted0 == ImprovedAnswerOf(s.format_assessment)
        adequacy_answer == ImprovedAnswerOf(s.adequacy_assessment)
        formatted_answer ==
            IF ~Truthy(formatted0)
            THEN Or(Or(adequacy_answer, s.grammar_fixed_answer), s.proposed_answer)
            ELSE formatted0
        adequacy_changes ==
            IF Truthy(s.adequacy_assessment)
               /\ ~Truthy(Get(s.adequacy_assessment, "adequately_addressed", Bool(TRUE)))
            THEN Get(s.adequacy_assessment, "suggestions", List(<<>>))
            ELSE List(<<>>)
        formatting_changes ==
            IF Truthy(s.format_assessment)
            THEN Get(s.format_assessment, "improvements_made", List(<<>>))
            ELSE List(<<>>)
        changes_summary ==
            Dict([grammar_changed |-> grammar_changed(s),
                  adequacy_issues |-> adequacy_changes,
                  formatting_improvements |-> formatting_changes])
    IN  [final_answer |-> formatted_answer, changes_summary |-> changes_summary]

\* Mutant: the synthesis node sends a prompt of its own to the gateway.
create_final_node_CallsGateway ==
    /\ pc = "create_final"
    /\ ~NodeInputRejected
    /\ ~create_final_answer_raises(state)
    /\ NodeReturn("create_final", create_final_answer(state),
                  [node |-> "create_final", answer |-> state.proposed_answer], "return")
    /\ UNCHANGED <<recovered, parseable>>

create_final_node ==
    /\ pc = "create_final"
    /\ \/ ValidationRaise
       \/ /\ ~NodeInputRejected
          /\ create_final_answer_raises(state)
          /\ NodeRaise("create_final", "AttributeError", None)
       \/ /\ ~NodeInputRejected
          /\ ~create_final_answer_raises(state)
          /\ NodeReturn("create_final", create_final_answer(state), None, "return")
          /\ UNCHANGED <<recovered, parseable>>

\* ---------------------------------------------------------- result reducer
\* The dict process_answer returns, read off the state graph.invoke returned.
Payload(s, proposed) ==
    Dict([original_answer |-> Str(proposed),
          final_answer |-> s.final_answer,
          analysis |->
            Dict([grammar_fixed |->
                    Bool(IF Truthy(s.grammar_fixed_answer)
                         THEN s.grammar_fixed_answer # Str(proposed)
                         ELSE FALSE),
                  adequacy_assessment |-> s.adequacy_assessment,
                  format_assessment |-> s.format_assessment])])

process_answer_return ==
    /\ pc = "return"
    /\ result' = Payload(state, proposed_answer)
    /\ pc' = "done"
    /\ UNCHANGED <<inputs, state, ret, calls, executed, recovered, parseable, error>>

\* -------------------------------------------------------------------- spec
Next ==
    \/ process_answer_begin
    \/ fix_grammar_node
    \/ check_adequacy_node
    \/ improve_formatting_node
    \/ create_final_node
    \/ process_answer_return

Spec == Init /\ [][Next]_vars

\* ------------------------------------------------ concurrent invocations
\* Several process_answer calls in flight at once, given the same example
\* list and the same environment, their nodes interleaved in any order.
Invocations == {1, 2}
ConcAnswers == Answers \ {""}
ConcGrammarTexts == {"", "Go to Settings, then click the reset password link."}
ConcExampleSets == {e \in ExampleSets : Len(e.v) \in {1, MaxExamples}}
\* What the try block of a stage may yield here: a parse failure, a list, and
\* two records.
ConcParsed(node) ==
    {JSONDecodeError, JsonLits["[1]"],
     IF node = "check_adequacy" THEN JsonLits["{inadequate}"] ELSE JsonLits["{formatted}"],
     IF node = "check_adequacy" THEN JsonLits["{inadequate,empty}"] ELSE JsonLits["{formatted,empty}"]}

\* Mutant: every invocation works on the AgentState of the first.
StateOf_Shared(i) == 1

\* The AgentState invocation i works on: process_answer builds one of its own
\* and hands it to a graph of its own.
StateOf(i) == i

ConcInit ==
    /\ pc = "concurrent"
    /\ user_query \in Queries
    /\ proposed_answer = ""
    /\ formatting_examples \in ConcExampleSets
    /\ csv_path = None
    /\ api_key \in BOOLEAN
    /\ validates \in BOOLEAN
    /\ state = NoState
    /\ ret = None
    /\ calls = <<>>
    /\ executed = <<>>
    /\ recovered = {}
    /\ parseable = {}
    /\ error = None
    /\ result = None
    /\ runs \in [Invocations ->
                  {[pc |-> "process_answer", proposed_answer |-> a, responses |-> <<>>,
                    steps |-> 0, calls |-> <<>>, error |-> None, result |-> None]
                   : a \in ConcAnswers}]
    /\ states = [i \in Invocations |-> NoState]

\* process_answer of invocation i up to graph.invoke.
invoke_begin(i) ==
    /\ runs[i].pc = "process_answer"
    /\ states' = [states EXCEPT ![StateOf(i)] = AgentState(user_query, runs[i].proposed_answer)]
    /\ runs' = IF get_claude_client_raises
               THEN [runs EXCEPT ![i].pc = "raised", ![i].error = Str("ValueError")]
               ELSE [runs EXCEPT ![i].pc = "fix_grammar"]
    /\ UNCHANGED single

\* A node of invocation i whose body raises (made_call: the prompt sent, if any).
InvokeRaise(i, exc, made_call) ==
    /\ runs' = [runs EXCEPT ![i].pc = "raised", ![i].error = Str(exc),
                            ![i].calls = @ \o made_call]
    /\ UNCHANGED <<states, single>>

\* A node of invocation i that returns upd, after the response it was given.
InvokeReturn(i, upd, made_call, response, next) ==
    /\ states' = [states EXCEPT ![StateOf(i)] = ApplyUpdate(@, upd)]
    /\ runs' = [runs EXCEPT ![i].pc = next, ![i].steps = @ + 1,
                            ![i].calls = @ \o made_call,
                            ![i].responses = @ \o response]
    /\ UNCHANGED single

invoke_fix_grammar(i) ==
    LET s == states[StateOf(i)] IN
    /\ runs[i].pc = "fix_grammar"
    /\ \/ InvokeRaise(i, "ServiceError", <<fix_grammar_prompt(s)>>)
       \/ \E text \in ConcGrammarTexts :
            InvokeReturn(i, fix_grammar(s, text), <<fix_grammar_prompt(s)>>,
                         <<Str(text)>>, "check_adequacy")

invoke_check_adequacy(i) ==
    LET s == states[StateOf(i)] IN
    /\ runs[i].pc = "check_adequacy"
    /\ \/ InvokeRaise(i, "ServiceError", <<check_adequacy_prompt(s)>>)
       \/ \E parsed \in ConcParsed("check_adequacy") :
            InvokeReturn(i, check_adequacy(s, parsed), <<check_adequacy_prompt(s)>>,
                         <<parsed>>, "improve_formatting")

invoke_improve_formatting(i) ==
    LET s == states[StateOf(i)]
        rejected == validates /\ ~ValidState(s)
    IN
    /\ runs[i].pc = "improve_formatting"
    /\ \/ /\ rejected
          /\ InvokeRaise(i, "ValidationError", <<>>)
       \/ /\ ~rejected
          /\ improve_formatting_raises(s)
          /\ InvokeRaise(i, "AttributeError", <<>>)
       \/ /\ ~rejected
          /\ ~improve_formatting_raises(s)
          /\ InvokeRaise(i, "ServiceError",
                         <<improve_formatting_prompt(s, formatting_examples)>>)
       \/ /\ ~rejected
          /\ ~improve_formatting_raises(s)
          /\ \E parsed \in ConcParsed("improve_formatting") :
               InvokeReturn(i, improve_formatting(s, formatting_examples, parsed),
                            <<improve_formatting_prompt(s, formatting_examples)>>,
                            <<parsed>>, "create_final")

invoke_create_final(i) ==
    LET s == states[StateOf(i)]
        rejected == validates /\ ~ValidState(s)
    IN
    /\ runs[i].pc = "create_final"
    /\ \/ /\ rejected
          /\ InvokeRaise(i, "ValidationError", <<>>)
       \/ /\ ~rejected
          /\ create_final_answer_raises(s)
          /\ InvokeRaise(i, "AttributeError", <<>>)
       \/ /\ ~rejected
          /\ ~create_final_answer_raises(s)
          /\ InvokeReturn(i, create_final_answer(s), <<>>, <<>>, "return")

invoke_return(i) ==
    /\ runs[i].pc = "return"
    /\ runs' = [runs EXCEPT ![i].pc = "done",
                            ![i].result = Payload(states[StateOf(i)], runs[i].proposed_answer)]
    /\ UNCHANGED <<states, single>>

ConcNext ==
    \E i \in Invocations :
        \/ invoke_begin(i)
        \/ invoke_fix_grammar(i)
        \/ invoke_check_adequacy(i)
        \/ invoke_improve_formatting(i)
        \/ invoke_create_final(i)
        \/ invoke_return(i)

SpecConc == ConcInit /\ [][ConcNext]_vars

\* ================================================================== claims
\* The order build_answer_quality_graph wires the nodes in.
Order == <<"fix_grammar", "check_adequacy", "improve_formatting", "create_final">>

\* The state field each node is designated to write.
FieldOf ==
    ( "fix_grammar" :> "grammar_fixed_answer" )
 @@ ( "check_adequacy" :> "adequacy_assessment" )
 @@ ( "improve_formatting" :> "format_assessment" )
 @@ ( "create_final" :> "final_answer" )

Terminated == pc \in {"done", "raised"}

\* The node whose gateway call was the last one made.
LastCaller == calls[Len(calls)].node

\* Position of a node in Order.
IndexOf(node) == CHOOSE i \in 1..Len(Order) : Order[i] = node

\* C1: every invocation of process_answer ends either in an error with no
\* payload, or in a payload whose final_answer is set and whose
\* adequacy_assessment and format_assessment are both set records.
C1_ErrorOrWellFormedResult ==
    /\ Terminated => ((error # None) # (result # None))
    /\ error # None => result = None
    /\ result # None =>
         /\ result.v.final_answer # None
         /\ IsDict(result.v.analysis.v.adequacy_assessment)
         /\ IsDict(result.v.analysis.v.format_assessment)

\* C2: a failed gateway call of the grammar, adequacy or formatting stage
\* halts the pipeline at that stage: no later node runs, no further gateway
\* call is made, the field of the failing stage and of every later stage
\* stays unset, and the caller gets the error and no payload.
C2_GatewayFailureHalts ==
    error = Str("ServiceError") =>
        /\ pc = "raised"
        /\ ~ENABLED Next
        /\ result = None
        /\ LastCaller \in {"fix_grammar", "check_adequacy", "improve_formatting"}
        /\ executed = SubSeq(Order, 1, IndexOf(LastCaller))
        /\ Len(calls) = IndexOf(LastCaller)
        /\ \A i \in IndexOf(LastCaller)..Len(Order) : state[FieldOf[Order[i]]] = None

C2_Witness ==
    /\ error = Str("ServiceError")
    /\ LastCaller = "check_adequacy"
    /\ state.grammar_fixed_answer # None

\* C3: when the adequacy response cannot be parsed as JSON, check_adequacy
\* raises nothing, adequacy_assessment is exactly the sentinel record whose
\* improved_answer is the answer the stage was given in its prompt, and the
\* pipeline goes on to the formatting stage.
C3_AdequacySentinel ==
    "check_adequacy" \in recovered =>
        /\ state.adequacy_assessment =
             Dict([adequately_addressed |-> Bool(FALSE),
                   missing_aspects |-> List(<<"Unable to parse assessment">>),
                   suggestions |-> List(<<"Error processing assessment">>),
                   improved_answer |-> calls[2].answer])
        /\ \/ pc = "improve_formatting" /\ error = None /\ ENABLED improve_formatting_node
           \/ Len(executed) >= 3 /\ executed[3] = "improve_formatting"

C3_Witness ==
    /\ "check_adequacy" \in recovered
    /\ Len(executed) >= 3
    /\ state.grammar_fixed_answer \notin {Str(""), state.proposed_answer}

\* C4: when the formatting response cannot be parsed as JSON,
\* improve_formatting raises nothing, format_assessment is the sentinel record
\* whose improved_answer is the current answer of the stage, the pipeline goes
\* on to the final stage, and the final_answer returned is that current
\* answer.
C4_FormatSentinel ==
    "improve_formatting" \in recovered =>
        /\ state.format_assessment =
             Dict([formatting_issues |-> List(<<"Unable to parse assessment">>),
                   improvements_made |-> List(<<"Error processing formatting">>),
                   improved_answer |-> calls[3].answer])
        /\ error = None
        /\ \/ pc = "create_final" /\ ENABLED create_final_node
           \/ /\ pc \in {"return", "done"}
              /\ executed[4] = "create_final"
              /\ state.final_answer = calls[3].answer
        /\ pc = "done" => result.v.final_answer = calls[3].answer

C4_Witness ==
    /\ "improve_formatting" \in recovered
    /\ pc = "done"
    /\ state.adequacy_assessment # None
    /\ result.v.final_answer \notin {state.grammar_fixed_answer, state.proposed_answer}

\* C5: whenever check_adequacy completes, adequacy_assessment is a
\* well-formed record with the four fields adequately_addressed (boolean),
\* missing_aspects (sequence), suggestions (sequence), improved_answer (string).
WellFormedAdequacy(x) ==
    /\ IsDict(x)
    /\ {"adequately_addressed", "missing_aspects", "suggestions", "improved_answer"}
         \subseteq DOMAIN x.v
    /\ x.v["adequately_addressed"].kind = "bool"
    /\ x.v["missing_aspects"].kind = "list"
    /\ x.v["suggestions"].kind = "list"
    /\ x.v["improved_answer"].kind = "str"

C5_AdequacyWellFormed ==
    pc = "improve_formatting" => WellFormedAdequacy(state.adequacy_assessment)

\* C6: the nodes run in the fixed order fix_grammar, check_adequacy,
\* improve_formatting, create_final, each at most once and none skipped; each
\* of the first three calls the gateway at most once, create_final never
\* does, and a run that returns a payload has made exactly three calls.
C6_LinearPipeline ==
    /\ Len(executed) <= Len(Order)
    /\ executed = SubSeq(Order, 1, Len(executed))
    /\ Len(calls) <= 3
    /\ Len(calls) <= Len(executed)
    /\ \A i \in 1..Len(calls) : calls[i].node = Order[i]
    /\ \A i \in 1..Len(Order) : pc = Order[i] => Len(executed) = i - 1
    /\ pc \in {"return", "done"} => executed = Order /\ Len(calls) = 3
    /\ result # None => pc = "done"

C6_Witness ==
    /\ pc = "done"
    /\ result # None
    /\ recovered = {"check_adequacy", "improve_formatting"}

\* C7: a stage transition only adds to the state: user_query and
\* proposed_answer keep their initial values, each optional field changes
\* only while unset and only in the step of its designated node, and a field
\* once set is never cleared or overwritten.
C7_AppendOnly ==
    [][ /\ pc # "process_answer" =>
              /\ state.user_query = Str(user_query)
              /\ state.proposed_answer = Str(proposed_answer)
              /\ state'.user_query = state.user_query
              /\ state'.proposed_answer = state.proposed_answer
        /\ \A i \in 1..Len(Order) :
              state'[FieldOf[Order[i]]] # state[FieldOf[Order[i]]] =>
                  /\ state[FieldOf[Order[i]]] = None
                  /\ pc = Order[i]
      ]_vars

C7_Witness ==
    /\ pc = "done"
    /\ \A i \in 1..Len(Order) : state[FieldOf[Order[i]]] # None
    /\ state.grammar_fixed_answer # state.proposed_answer

\* C8: after the final synthesis stage the terminal state holds the
\* changes_summary the stage returned, alongside final_answer.
C8_ChangesSummaryInState ==
    pc \in {"return", "done"} =>
        /\ "changes_summary" \in DOMAIN ret.v
        /\ "changes_summary" \in DOMAIN state
        /\ state["changes_summary"] = ret.v["changes_summary"]

\* C9 as claimed: grammar_changed and analysis.grammar_fixed are true iff
\* grammar_fixed_answer has been set and is not equal to proposed_answer.
C9_GrammarChangedIffSetAndDiffers ==
    pc \in {"return", "done"} =>
        LET changed == /\ state.grammar_fixed_answer # None
                       /\ state.grammar_fixed_answer # Str(proposed_answer)
        IN  /\ ret.v.changes_summary.v.grammar_changed = Bool(changed)
            /\ pc = "done" => result.v.analysis.v.grammar_fixed = Bool(changed)

\* C9 as amended: grammar_changed and analysis.grammar_fixed are true iff
\* grammar_fixed_answer is a non-empty text that is not equal to
\* proposed_answer, false when it is equal, empty or absent, and the two flags
\* agree.
C9_GrammarChangedIffNonEmptyAndDiffers ==
    pc \in {"return", "done"} =>
        LET changed == /\ state.grammar_fixed_answer.kind = "str"
                       /\ state.grammar_fixed_answer.v # ""
                       /\ state.grammar_fixed_answer.v # proposed_answer
        IN  /\ ret.v.changes_summary.v.grammar_changed = Bool(changed)
            /\ pc = "done" =>
                 /\ result.v.analysis.v.grammar_fixed = Bool(changed)
                 /\ result.v.analysis.v.grammar_fixed = ret.v.changes_summary.v.grammar_changed

C9_Witness ==
    /\ pc = "done"
    /\ result.v.analysis.v.grammar_fixed = Bool(TRUE)
    /\ proposed_answer # ""

\* C10 as claimed: the answer the adequacy stage evaluates, and the
\* improved_answer of its parse-failure sentinel, is grammar_fixed_answer
\* whenever stage 1 has set it, and proposed_answer only when it is absent.
C10_AdequacyUsesGrammarFixedIfSet ==
    Len(calls) >= 2 =>
        LET expected == IF state.grammar_fixed_answer # None
                        THEN state.grammar_fixed_answer
                        ELSE Str(proposed_answer)
        IN  /\ calls[2].answer = expected
            /\ "check_adequacy" \in recovered =>
                 state.adequacy_assessment.v.improved_answer = expected

\* C10 as amended: the answer the adequacy stage evaluates, and the
\* improved_answer of its parse-failure sentinel, is grammar_fixed_answer
\* whenever stage 1 has set it to a non-empty text, and proposed_answer when
\* grammar_fixed_answer is absent or empty.
C10_AdequacyUsesGrammarFixedIfNonEmpty ==
    Len(calls) >= 2 =>
        LET expected == IF state.grammar_fixed_answer.kind = "str"
                           /\ state.grammar_fixed_answer.v # ""
                        THEN state.grammar_fixed_answer
                        ELSE Str(proposed_answer)
            absent == [state EXCEPT !.grammar_fixed_answer = None]
        IN  /\ calls[2].answer = expected
            /\ "check_adequacy" \in recovered =>
                 state.adequacy_assessment.v.improved_answer = expected
            /\ check_adequacy_prompt(absent).answer = Str(proposed_answer)
            /\ check_adequacy(absent, JSONDecodeError).adequacy_assessment.v.improved_answer
                 = Str(proposed_answer)

C10_Witness ==
    /\ Len(calls) >= 2
    /\ "check_adequacy" \in recovered
    /\ state.grammar_fixed_answer \notin {Str(""), Str(proposed_answer)}
    /\ state.adequacy_assessment.v.improved_answer = state.grammar_fixed_answer

\* The improved_answer of an assessment when it is present and non-empty,
\* None otherwise.
PresentImprovedAnswer(x) ==
    IF IsDict(x) /\ "improved_answer" \in DOMAIN x.v /\ x.v["improved_answer"] \notin {None, Str("")}
    THEN x.v["improved_answer"]
    ELSE None

\* The fallback chain as the claims word it: grammar_fixed_answer if present.
ChainIfPresent(improved, s) ==
    IF improved # None THEN improved
    ELSE IF s.grammar_fixed_answer # None THEN s.grammar_fixed_answer
    ELSE s.proposed_answer

\* The fallback chain with grammar_fixed_answer used only when non-empty.
ChainIfNonEmpty(improved, s) ==
    IF improved # None THEN improved
    ELSE IF s.grammar_fixed_answer \notin {None, Str("")} THEN s.grammar_fixed_answer
    ELSE s.proposed_answer

\* C11 as claimed: the current answer of the formatting stage is
\* adequacy_assessment.improved_answer if present and non-empty, else
\* grammar_fixed_answer if present, else proposed_answer, and it is never
\* empty when an upstream value is non-empty.
C11_CurrentAnswerChainIfPresent ==
    Len(calls) >= 3 =>
        /\ calls[3].answer =
             ChainIfPresent(PresentImprovedAnswer(state.adequacy_assessment), state)
        /\ calls[3].answer = Str("") =>
             /\ state.proposed_answer = Str("")
             /\ state.grammar_fixed_answer \in {None, Str("")}

\* C11 as amended: the current answer of the formatting stage is
\* adequacy_assessment.improved_answer if present and non-empty, else
\* grammar_fixed_answer if present and non-empty, else proposed_answer; with
\* adequacy_assessment or grammar_fixed_answer absent the chain moves on to
\* the next value, and the current answer is never empty when an upstream
\* value is non-empty.
C11_CurrentAnswerChainIfNonEmpty ==
    /\ Len(calls) >= 3 =>
        /\ calls[3].answer =
             ChainIfNonEmpty(PresentImprovedAnswer(state.adequacy_assessment), state)
        /\ calls[3].answer = Str("") =>
             /\ state.proposed_answer = Str("")
             /\ state.grammar_fixed_answer \in {None, Str("")}
             /\ PresentImprovedAnswer(state.adequacy_assessment) = None
    /\ pc \in {"check_adequacy", "improve_formatting"} =>
        LET no_adequacy == [state EXCEPT !.adequacy_assessment = None]
            neither == [no_adequacy EXCEPT !.grammar_fixed_answer = None]
        IN  /\ improve_formatting_current_answer(no_adequacy) =
                 ChainIfNonEmpty(None, state)
            /\ improve_formatting_current_answer(neither) = state.proposed_answer

C11_Witness ==
    /\ Len(calls) >= 3
    /\ calls[3].answer = Str("a2")
    /\ state.grammar_fixed_answer \notin {Str(""), state.proposed_answer}

\* The states create_final_answer may be handed: the fields of s with any
\* of the three upstream fields absent.
WithAbsent(s) ==
    {[s EXCEPT !.grammar_fixed_answer = IF "g" \in drop THEN None ELSE @,
               !.adequacy_assessment = IF "a" \in drop THEN None ELSE @,
               !.format_assessment = IF "f" \in drop THEN None ELSE @]
        : drop \in SUBSET {"g", "a", "f"}}

\* C12 as claimed: final_answer is format_assessment.improved_answer if
\* present and non-empty, else adequacy_assessment.improved_answer if present
\* and non-empty, else grammar_fixed_answer if present, else proposed_answer.
C12_FinalAnswerChainIfPresent ==
    pc \in {"return", "done"} =>
        state.final_answer =
            IF PresentImprovedAnswer(state.format_assessment) # None
            THEN PresentImprovedAnswer(state.format_assessment)
            ELSE ChainIfPresent(PresentImprovedAnswer(state.adequacy_assessment), state)

\* C12 as amended: final_answer is format_assessment.improved_answer if
\* present and non-empty, else adequacy_assessment.improved_answer if present
\* and non-empty, else grammar_fixed_answer if present and non-empty, else
\* proposed_answer, for every combination of present, absent and empty
\* upstream fields.
C12_FinalAnswerChainIfNonEmpty ==
    /\ pc \in {"return", "done"} =>
        /\ state.final_answer =
            IF PresentImprovedAnswer(state.format_assessment) # None
            THEN PresentImprovedAnswer(state.format_assessment)
            ELSE ChainIfNonEmpty(PresentImprovedAnswer(state.adequacy_assessment), state)
        /\ pc = "done" => result.v.final_answer = state.final_answer
    /\ pc = "create_final" /\ ~create_final_answer_raises(state) =>
        \A s \in WithAbsent(state) :
            create_final_answer(s).final_answer =
                IF PresentImprovedAnswer(s.format_assessment) # None
                THEN PresentImprovedAnswer(s.format_assessment)
                ELSE ChainIfNonEmpty(PresentImprovedAnswer(s.adequacy_assessment), s)

C12_Witness ==
    /\ pc = "done"
    /\ PresentImprovedAnswer(state.format_assessment) = None
    /\ state.format_assessment # None
    /\ result.v.final_answer = Str("a1")

\* C13: in the change summary the final stage builds, adequacy_issues is
\* adequacy_assessment.suggestions exactly when adequately_addressed is false
\* and the empty sequence otherwise (also when the answer was judged adequate
\* and suggestions is non-empty); formatting_improvements is
\* format_assessment.improvements_made when format_assessment is present and
\* the empty sequence otherwise.
C13_ChangeSummaryLists ==
    pc \in {"return", "done"} =>
        LET aa == state.adequacy_assessment
            fa == state.format_assessment
            summary == ret.v.changes_summary.v
            judged_inadequate ==
                /\ IsDict(aa)
                /\ "adequately_addressed" \in DOMAIN aa.v
                /\ aa.v["adequately_addressed"] = Bool(FALSE)
        IN  /\ summary.adequacy_issues =
                 IF judged_inadequate /\ "suggestions" \in DOMAIN aa.v
                 THEN aa.v["suggestions"]
                 ELSE List(<<>>)
            /\ summary.formatting_improvements =
                 IF IsDict(fa) /\ "improvements_made" \in DOMAIN fa.v
                 THEN fa.v["improvements_made"]
                 ELSE List(<<>>)

C13_Witness ==
    /\ pc = "done"
    /\ state.adequacy_assessment = JsonLits["{adequate}"]
    /\ state.adequacy_assessment.v.suggestions # List(<<>>)
    /\ ret.v.changes_summary.v.adequacy_issues = List(<<>>)
    /\ ret.v.changes_summary.v.formatting_improvements = List(<<"numbered steps">>)

\* C14: a configuration error (no credential, or neither formatting_examples
\* nor csv_path) is raised before any stage runs: no node has executed, no
\* gateway call has been made, no field has been written and no payload is
\* returned; without a credential no node ever runs.
C14_ConfigurationErrorFirst ==
    /\ error = Str("ValueError") =>
         /\ pc = "raised"
         /\ ~api_key \/ (formatting_examples = None /\ csv_path = None)
         /\ executed = <<>>
         /\ calls = <<>>
         /\ result = None
         /\ \A i \in 1..Len(Order) : state[FieldOf[Order[i]]] = None
    /\ ~api_key \/ (formatting_examples = None /\ csv_path = None) =>
         /\ executed = <<>>
         /\ calls = <<>>
         /\ result = None
         /\ pc \in {"process_answer", "raised"}

C14_Witness ==
    /\ error = Str("ValueError")
    /\ ~api_key
    /\ formatting_examples # None
    /\ state.proposed_answer # None

\* C15: process_answer fails at its entry only when neither an example set
\* nor a csv_path is supplied; with csv_path supplied and formatting_examples
\* not, the examples are loaded and the pipeline goes on to run its stages.
C15_CsvPathLoadsExamples ==
    formatting_examples = None /\ csv_path # None /\ api_key /\ pc # "process_answer" =>
        /\ error \notin {Str("ValueError"), Str("TypeError")}
        /\ pc # "raised" \/ executed # <<>>

\* C16: a structured response is replaced by the sentinel record only when
\* none of the three extraction strategies yields text that parses; when one
\* of them does, no sentinel is substituted. This holds for the adequacy and
\* for the formatting parser.
C16_SentinelOnlyIfNoStrategyParses ==
    \A node \in {"check_adequacy", "improve_formatting"} :
        /\ node \in recovered => node \notin parseable
        /\ node \in parseable => node \notin recovered

\* C17: the formatting stage uses exactly the first 5 records of the example
\* sequence, in their original order and numbered 1..5, when more than 5 are
\* loaded, and all of them in order when 5 or fewer are loaded; it uses no
\* record beyond the fifth and leaves the example sequence unchanged.
C17_FirstFiveExamples ==
    /\ [](Len(calls) >= 3 =>
            LET used == calls[3].examples_text
                n == Len(formatting_examples.v)
            IN  /\ Len(used) = IF n > 5 THEN 5 ELSE n
                /\ \A i \in 1..Len(used) :
                     /\ used[i].number = i
                     /\ used[i].example = formatting_examples.v[i]
                /\ \A i \in 6..n :
                     \A k \in 1..Len(used) : used[k].example # formatting_examples.v[i])
    /\ [][formatting_examples' = formatting_examples]_vars

C17_Witness ==
    /\ Len(calls) >= 3
    /\ Len(formatting_examples.v) = 8
    /\ Len(calls[3].examples_text) = 5
    /\ calls[3].examples_text[5].example = Example(5)

\* The AgentState a call with this proposed answer holds when it runs alone
\* and its first `steps` nodes have returned after these responses.
SequentialState(proposed, responses, steps) ==
    LET s0 == AgentState(user_query, proposed)
        s1 == ApplyUpdate(s0, fix_grammar(s0, responses[1].v))
        s2 == ApplyUpdate(s1, check_adequacy(s1, responses[2]))
        s3 == ApplyUpdate(s2, improve_formatting(s2, formatting_examples, responses[3]))
        s4 == ApplyUpdate(s3, create_final_answer(s3))
    IN  CASE steps = 0 -> s0
          [] steps = 1 -> s1
          [] steps = 2 -> s2
          [] steps = 3 -> s3
          [] OTHER -> s4

\* The k-th prompt such a call sends.
SequentialCall(proposed, responses, k) ==
    CASE k = 1 -> fix_grammar_prompt(SequentialState(proposed, responses, 0))
      [] k = 2 -> check_adequacy_prompt(SequentialState(proposed, responses, 1))
      [] OTHER -> improve_formatting_prompt(SequentialState(proposed, responses, 2),
                                            formatting_examples)

\* C18: with the nodes of several invocations interleaved in any order, the
\* AgentState, the prompts and the result of each invocation are those of a
\* call running alone with the same arguments and the same gateway responses;
\* a step of one invocation leaves the AgentState of every other untouched;
\* and no step changes the shared example list.
C18_InvocationsIndependent ==
    /\ [](\A i \in Invocations :
            LET r == runs[i] IN
            /\ r.pc = "process_answer" => states[i] = NoState
            /\ r.pc # "process_answer" =>
                 states[i] = SequentialState(r.proposed_answer, r.responses, r.steps)
            /\ \A k \in 1..Len(r.calls) :
                 r.calls[k] = SequentialCall(r.proposed_answer, r.responses, k)
            /\ r.pc = "done" =>
                 r.result = Payload(SequentialState(r.proposed_answer, r.responses, 4),
                                    r.proposed_answer)
            /\ r.pc # "done" => r.result = None)
    /\ [][/\ formatting_examples' = formatting_examples
          /\ \A i \in Invocations : runs'[i] = runs[i] => states'[i] = states[i]]_vars

C18_Witness ==
    /\ runs[1].pc = "done"
    /\ runs[1].result.v.final_answer = Str("f1")
    /\ runs[2].pc = "improve_formatting"
    /\ runs[2].proposed_answer # runs[1].proposed_answer
    /\ states[2].adequacy_assessment = JsonLits["{inadequate,empty}"]
    /\ states[1] # states[2]

\* C19: no stage reads a field before the stage that writes it has set it:
\* when the adequacy stage executes grammar_fixed_answer is set, when the
\* formatting stage executes grammar_fixed_answer and adequacy_assessment are
\* set, when the final stage executes format_assessment is set as well.
C19_FieldsSetBeforeRead ==
    /\ pc = "check_adequacy" => state.grammar_fixed_answer # None
    /\ pc = "improve_formatting" =>
         /\ state.grammar_fixed_answer # None
         /\ state.adequacy_assessment # None
    /\ pc = "create_final" =>
         /\ state.grammar_fixed_answer # None
         /\ state.adequacy_assessment # None
         /\ state.format_assessment # None

\* C20: with a non-empty proposed_answer and every improved_answer a string
\* (possibly empty or missing), a run that reaches the final stage produces a
\* non-empty final_answer, whatever empty, missing or sentinel values the
\* earlier stages produced.
NonEmptyText(x) == x.kind = "str" /\ x.v # ""

C20_FinalAnswerNonEmpty ==
    proposed_answer # "" =>
        /\ pc \in {"return", "done"} =>
             /\ NonEmptyText(state.final_answer)
             /\ pc = "done" => NonEmptyText(result.v.final_answer)
        /\ pc = "create_final" /\ ValidState(state) =>
             /\ ~create_final_answer_raises(state)
             /\ \A s \in WithAbsent(state) : NonEmptyText(create_final_answer(s).final_answer)

C20_Witness ==
    /\ pc = "done"
    /\ proposed_answer # ""
    /\ state.grammar_fixed_answer = Str("")
    /\ state.adequacy_assessment = JsonLits["{inadequate,empty}"]
    /\ state.format_assessment = JsonLits["{formatted,empty}"]
    /\ result.v.final_answer = Str(proposed_answer)

====
